---- MODULE Spec2Model ----
(***************************************************************************)
(* Content-addressed chunked blob upload (StorageClient) of the quadtree   *)
(* art generator: YHash, BlobHashTree, StorageGatewayClient, StorageClient *)
(* and the registry actor.                                                 *)
(*                                                                         *)
(* Byte arrays and strings are sequences of naturals (bytes, character     *)
(* codes).  SHA-256 is modelled as a collision-free digest: the digest of  *)
(* a byte array is the array between two marker bytes that occur in no     *)
(* input, so equal digests mean equal inputs.                              *)
(***************************************************************************)
EXTENDS Integers, Sequences, FiniteSets, Bags, TLC

(***************************************************************************)
(* Bounds of the model                                                     *)
(***************************************************************************)
MaxFileSize == 9
ChunkSize == 2
PoolWidth == 2
MaxPattern == 2
MaxBuildChunks == 5
MaxStrideChunks == 23
MaxChunkerSize == 12
MaxChunkSize == 5
MaxDigestStep == 8
MaxDigestOffset == 4
MaxObjectUrls == 3
MaxTime == 2
MaxUploadCalls == 4

(***************************************************************************)
(* State                                                                   *)
(***************************************************************************)
VARIABLES
    path,            \* putFile argument
    file,            \* putFile argument: the bytes of the file
    onProgress,      \* whether a progress callback is supplied
    pc,              \* position of putFile
    error,           \* the error putFile rejected with
    result,          \* the value putFile resolved with
    chunks,          \* processFileForUpload: chunks
    chunkHashes,     \* processFileForUpload: chunkHashes
    blobHashTree,    \* processFileForUpload: blobHashTree
    worker,          \* parallelUpload: loop variable and position of each worker
    completedChunks, \* parallelUpload: completedChunks
    progress,        \* the percentages passed to onProgress, in call order
    treeRequests,    \* bodies of the PUT /blob-tree requests issued
    treeResponse,    \* status the gateway answered the tree request with, 0 if none
    chunkRequests,   \* bag of the PUT /chunk requests issued
    chunkResponses,  \* bag of [chunk_index, status] answered by the gateway
    uploaded,        \* bag of chunk indices whose uploadChunk call returned
    failOrder,       \* chunk indices whose uploadChunk call threw, in order
    registry,        \* the registry actor: path -> FileReference
    registerCalls,   \* (path, hash) of registerFileReference calls of putFile
    registerApplied, \* whether a registerFileReference call of putFile was applied
    builder,         \* independent calls of BlobHashTree.build
    buildInput,      \* the chunk hashes the builders are given
    buildClock,      \* number of build steps taken so far
    fnArgs,          \* arguments of a call of a pure function
    fnResult,        \* whether the call has returned, and its value
    resolver,        \* a call of getDirectURL on its own: argument, position, outcome
    getCalls,        \* paths of the getFileReference calls issued by getDirectURL
    otherOp,         \* the latest registry call of another client, with its answer
    converter,       \* ImageConverter: the state of the component and of useFileUpload
    processing,      \* ImageConverter: the call of processImage in flight
    uploadFileCalls, \* the (path, file) of the uploadFile calls issued
    objectUrls       \* number of URL.createObjectURL calls so far

vars == <<path, file, onProgress, pc, error, result, chunks, chunkHashes,
          blobHashTree, worker, completedChunks, progress, treeRequests,
          treeResponse, chunkRequests, chunkResponses, uploaded, failOrder,
          registry, registerCalls, registerApplied, builder, buildInput,
          buildClock, fnArgs, fnResult, resolver, getCalls, otherOp,
          converter, processing, uploadFileCalls, objectUrls>>

putVars == <<path, file, onProgress, pc, error, result, chunks, chunkHashes,
             blobHashTree, worker, completedChunks, progress, treeRequests,
             treeResponse, chunkRequests, chunkResponses, uploaded, failOrder,
             registry, registerCalls, registerApplied>>

buildVars == <<builder, buildInput, buildClock>>

pureVars == <<fnArgs, fnResult>>

resolveVars == <<resolver, getCalls, otherOp>>

appVars == <<converter, processing, uploadFileCalls, objectUrls>>

(***************************************************************************)
(* Program constants                                                       *)
(***************************************************************************)
MAXIMUM_CONCURRENT_UPLOADS == 10

\* the sentinel made to depend on the moment it is computed
SentinelTimed == <<85, 78, 66, 65, 76, 65, 78, 67, 69, 68, buildClock>>

\* new TextEncoder().encode('UNBALANCED')
SENTINEL == <<85, 78, 66, 65, 76, 65, 78, 67, 69, 68>>

\* 'sha256:'
ShaPrefix == <<115, 104, 97, 50, 53, 54, 58>>

Null == -1

Owner == "owner"
Bucket == "bucket"
GatewayUrl == "gateway"

GatewayStatuses == {200, 500}
RegistryPaths == {"a", "b"}
PathInputs == {"", "a"}

(***************************************************************************)
(* YHash                                                                   *)
(***************************************************************************)
\* YHash.fromBytes: the SHA-256 digest of data
fromBytes(data) == <<254>> \o data \o <<255>>

\* one hexadecimal digit as a character code ('0'..'9', 'a'..'f')
HexDigit(n) == IF n < 10 THEN 48 + n ELSE 87 + n

\* b.toString(16) without the padding
HexByteNoPad(b) ==
    IF b < 16 THEN <<HexDigit(b % 16)>>
    ELSE <<HexDigit(b \div 16), HexDigit(b % 16)>>

\* b.toString(16).padStart(2, '0')
HexByte(b) == <<HexDigit(b \div 16), HexDigit(b % 16)>>

RECURSIVE toHex(_)
toHex(bytes) ==
    IF bytes = <<>> THEN <<>> ELSE HexByte(Head(bytes)) \o toHex(Tail(bytes))

toShaString(bytes) == ShaPrefix \o toHex(bytes)

\* the length the YHash constructor accepts
YHASH_BYTES == 32

\* new YHash(bytes): the value, or the throw of the length check
YHashNew(bytes) ==
    IF Len(bytes) # YHASH_BYTES
    THEN [ok |-> FALSE, error |-> "InvalidDigestLength", bytes |-> <<>>]
    ELSE [ok |-> TRUE, error |-> "none", bytes |-> bytes]

\* the characters '.' of a regular expression does not match
LineTerminators == {10, 13, 8232, 8233}

\* hexString.match(/.{1,2}/g): the groups of two characters (one, before a
\* line terminator or the end), the empty sequence standing for null
RECURSIVE MatchPairs(_)
MatchPairs(str) ==
    IF str = <<>> THEN <<>>
    ELSE IF Head(str) \in LineTerminators THEN MatchPairs(Tail(str))
    ELSE IF Len(str) >= 2 /\ str[2] \notin LineTerminators
         THEN <<SubSeq(str, 1, 2)>> \o MatchPairs(SubSeq(str, 3, Len(str)))
         ELSE <<SubSeq(str, 1, 1)>> \o MatchPairs(Tail(str))

\* the value of a hexadecimal digit, -1 for any other character
HexValue(c) ==
    IF c \in 48..57 THEN c - 48
    ELSE IF c \in 97..102 THEN c - 87
    ELSE IF c \in 65..70 THEN c - 55
    ELSE -1

\* the white space parseInt skips
WhiteSpace == {9, 10, 11, 12, 13, 32, 160}

RECURSIVE TrimStart(_)
TrimStart(str) ==
    IF str # <<>> /\ Head(str) \in WhiteSpace THEN TrimStart(Tail(str)) ELSE str

\* the number read from the longest prefix of hexadecimal digits
RECURSIVE HexPrefix(_, _, _)
HexPrefix(str, value, seen) ==
    IF str # <<>> /\ HexValue(Head(str)) >= 0
    THEN HexPrefix(Tail(str), 16 * value + HexValue(Head(str)), TRUE)
    ELSE [nan |-> ~seen, value |-> value]

\* parseInt(byte, 16): white space, a sign, an optional 0x, then the digits;
\* NaN without a digit
parseInt16(str) ==
    LET t == TrimStart(str)
        negative == t # <<>> /\ Head(t) = 45
        u == IF t # <<>> /\ Head(t) \in {43, 45} THEN Tail(t) ELSE t
        v == IF Len(u) >= 2 /\ u[1] = 48 /\ u[2] \in {88, 120}
             THEN SubSeq(u, 3, Len(u)) ELSE u
        n == HexPrefix(v, 0, FALSE)
    IN  [nan |-> n.nan, value |-> IF negative THEN 0 - n.value ELSE n.value]

\* the conversion of a number stored into a Uint8Array: NaN becomes 0
ToUint8(n) == IF n.nan THEN 0 ELSE n.value % 256

\* YHash.fromHex: match(...)! is null for a string without a character to
\* match, and map on it throws a TypeError
fromHex(hexString) ==
    LET pairs == MatchPairs(hexString)
    IN  IF pairs = <<>>
        THEN [ok |-> FALSE, error |-> "TypeError", bytes |-> <<>>]
        ELSE YHashNew([k \in 1..Len(pairs) |-> ToUint8(parseInt16(pairs[k]))])

\* the position of the first occurrence of pattern in str, 0 if none
RECURSIVE IndexOf(_, _, _)
IndexOf(str, pattern, from) ==
    IF from + Len(pattern) - 1 > Len(str) THEN 0
    ELSE IF SubSeq(str, from, from + Len(pattern) - 1) = pattern THEN from
    ELSE IndexOf(str, pattern, from + 1)

\* str.replace(pattern, ''): the first occurrence removed, wherever it is
RemoveFirst(str, pattern) ==
    LET i == IndexOf(str, pattern, 1)
    IN  IF i = 0 THEN str
        ELSE SubSeq(str, 1, i - 1) \o SubSeq(str, i + Len(pattern), Len(str))

\* YHash.fromShaString
fromShaString(str) == fromHex(RemoveFirst(str, ShaPrefix))

(***************************************************************************)
(* BlobHashTree.build.  A level is a sequence of nodes; a node holds its   *)
(* hash and the positions (0-based) of its children in the level below,    *)
(* Null when absent.  The tree is the sequence of its levels, leaves       *)
(* first; the root is the only node of the last level.                     *)
(***************************************************************************)
Leaves(hashes) ==
    [k \in 1..Len(hashes) |-> [hash |-> hashes[k], left |-> Null, right |-> Null]]

HasRight(level, index) == index + 1 < Len(level)

\* the left hash duplicated in place of a missing right sibling
RightBytesDuplicate(level, index) ==
    IF HasRight(level, index) THEN level[index + 2].hash ELSE level[index + 1].hash

RightBytes(level, index) ==
    IF HasRight(level, index) THEN level[index + 2].hash ELSE SENTINEL

\* the parent digest taken over the right bytes followed by the left bytes
ParentNodeRightFirst(level, index) ==
    [hash  |-> fromBytes(RightBytes(level, index) \o level[index + 1].hash),
     left  |-> index,
     right |-> IF HasRight(level, index) THEN index + 1 ELSE Null]

\* the parent node without its right child
ParentNodeLeftOnly(level, index) ==
    [hash  |-> fromBytes(level[index + 1].hash \o RightBytes(level, index)),
     left  |-> index,
     right |-> Null]

ParentNode(level, index) ==
    [hash  |-> fromBytes(level[index + 1].hash \o RightBytes(level, index)),
     left  |-> index,
     right |-> IF HasRight(level, index) THEN index + 1 ELSE Null]

\* the level loop entered even for a single leaf
BuildStartAlwaysPair(hashes) ==
    IF Len(hashes) = 0
    THEN [pc |-> "error", level |-> <<>>, nextLevel |-> <<>>, index |-> 0,
          levels |-> <<>>]
    ELSE [pc |-> "pair",
          level |-> Leaves(hashes), nextLevel |-> <<>>, index |-> 0,
          levels |-> <<Leaves(hashes)>>]

\* build without its check for an empty list
BuildStartNoCheck(hashes) ==
    [pc |-> IF Len(hashes) > 1 THEN "pair" ELSE "done",
     level |-> Leaves(hashes), nextLevel |-> <<>>, index |-> 0,
     levels |-> <<Leaves(hashes)>>]

\* state of one call of build: st = [pc, level, nextLevel, index, levels]
BuildStart(hashes) ==
    IF Len(hashes) = 0
    THEN [pc |-> "error", level |-> <<>>, nextLevel |-> <<>>, index |-> 0,
          levels |-> <<>>]
    ELSE [pc |-> IF Len(hashes) > 1 THEN "pair" ELSE "done",
          level |-> Leaves(hashes), nextLevel |-> <<>>, index |-> 0,
          levels |-> <<Leaves(hashes)>>]

\* one iteration of the for loop, up to the next await; after the last
\* pair of a level, level = nextLevel and the while condition is tested
BuildStep(st) ==
    LET pushed == Append(st.nextLevel, ParentNode(st.level, st.index))
    IN  IF st.index + 2 < Len(st.level)
        THEN [st EXCEPT !.nextLevel = pushed, !.index = st.index + 2]
        ELSE [pc |-> IF Len(pushed) > 1 THEN "pair" ELSE "done",
              level |-> pushed, nextLevel |-> <<>>, index |-> 0,
              levels |-> Append(st.levels, pushed)]

RECURSIVE BuildRun(_)
BuildRun(st) == IF st.pc = "pair" THEN BuildRun(BuildStep(st)) ELSE st

EmptyTree == [tree_type |-> "BMT", chunk_hashes |-> <<>>, levels |-> <<>>]

\* the BlobHashTree returned by build
BlobHashTree(hashes, levels) ==
    [tree_type |-> "BMT", chunk_hashes |-> hashes, levels |-> levels]

build(hashes) == BlobHashTree(hashes, BuildRun(BuildStart(hashes)).levels)

\* blobHashTree.tree
RootNode(tree) == tree.levels[Len(tree.levels)][1]

\* BlobHashTree.toJSON / nodeToJSON
toJSON(tree) ==
    [tree_type |-> tree.tree_type,
     chunk_hashes |-> [k \in 1..Len(tree.chunk_hashes) |->
                          toShaString(tree.chunk_hashes[k])],
     tree |-> [l \in 1..Len(tree.levels) |->
                 [k \in 1..Len(tree.levels[l]) |->
                    [hash  |-> toShaString(tree.levels[l][k].hash),
                     left  |-> tree.levels[l][k].left,
                     right |-> tree.levels[l][k].right]]]]

(***************************************************************************)
(* StorageClient helpers                                                   *)
(***************************************************************************)
Min(a, b) == IF a < b THEN a ELSE b

\* the default of the chunkSize parameter of createFileChunks
DefaultChunkSize == 1024 * 1024

\* the number of chunks rounded down
TotalChunksFloor(size, chunkSize) == size \div chunkSize

\* Math.ceil(size / chunkSize)
TotalChunks(size, chunkSize) == (size + chunkSize - 1) \div chunkSize

\* createFileChunks: the byte range [start, end) of every chunk
createFileChunks(size, chunkSize) ==
    [k \in 1..TotalChunks(size, chunkSize) |->
        [start |-> (k - 1) * chunkSize,
         end   |-> Min((k - 1) * chunkSize + chunkSize, size)]]

\* file.slice(start, end) read by arrayBuffer()
ChunkData(f, chunk) == SubSeq(f, chunk.start + 1, chunk.end)

\* every response taken for a success
ResponseOkAny(status) == TRUE

\* response.ok
ResponseOk(status) == status >= 200 /\ status <= 299

\* the percentage rounded down
PercentageFloor(currentCompleted, total) ==
    IF total = 0 THEN 100 ELSE (100 * currentCompleted) \div total

\* Math.round((currentCompleted / chunks.length) * 100)
Percentage(currentCompleted, total) ==
    IF total = 0 THEN 100 ELSE (200 * currentCompleted + total) \div (2 * total)

\* the counter set from the index of the chunk
PreIncrementByIndex(completed, index) == index + 1

\* ++completedChunks after the upload of chunk index
PreIncrement(completed, index) == completed + 1

\* one worker per chunk
WorkersPerChunk(n, width) == 0..(n - 1)

\* Array.from({ length: MAXIMUM_CONCURRENT_UPLOADS }, ...): the worker ids
Workers(n, width) == 0..(width - 1)

\* the stride replaced by a step of one
NextStrideByOne(i, width) == i + 1

\* i += MAXIMUM_CONCURRENT_UPLOADS
NextStride(i, width) == i + width

\* the for loop of worker workerId, as the list of indices it visits
RECURSIVE StrideFrom(_, _, _)
StrideFrom(i, n, width) ==
    IF i < n THEN <<i>> \o StrideFrom(NextStride(i, width), n, width) ELSE <<>>

\* the loop test of a worker at index i: start uploadSingleChunk(i), which
\* suspends reading the chunk, or leave the loop
WorkerLoop(i, n) ==
    IF i < n THEN [i |-> i, phase |-> "read"] ELSE [i |-> i, phase |-> "done"]

\* resolved as soon as one worker is done
SomeDone(ws) == \E w \in DOMAIN ws : ws[w].phase = "done"

\* Promise.all over the workers resolves
AllDone(ws) == \A w \in DOMAIN ws : ws[w].phase = "done"

\* encodeURIComponent on the characters of a tagged hash: ':' becomes '%3A'
RECURSIVE encodeURIComponent(_)
encodeURIComponent(s) ==
    IF s = <<>> THEN <<>>
    ELSE (IF Head(s) = 58 THEN <<37, 51, 65>> ELSE <<Head(s)>>)
         \o encodeURIComponent(Tail(s))

\* the URL with the hash as stored, not encoded
DirectURLRaw(hash) ==
    [base |-> GatewayUrl, blob_hash |-> hash, owner_id |-> Owner]

\* the URL built by getDirectURL
DirectURL(hash) ==
    [base |-> GatewayUrl, blob_hash |-> encodeURIComponent(hash), owner_id |-> Owner]

(***************************************************************************)
(* Inputs                                                                  *)
(***************************************************************************)
FilePattern(s, k) == [p \in 1..s |-> (p * k) % 3]

Files == {FilePattern(s, k) : s \in 0..MaxFileSize, k \in 0..MaxPattern}

\* a hash registered by another client
OtherHash == toShaString(fromBytes(<<7>>))

\* the hashes other clients register
OtherHashes == {OtherHash, toShaString(fromBytes(<<8>>))}

\* the arguments of getDirectURL
ResolvePaths == {"", "a", "b"}

DigestInputs == {fromBytes(<<0>>), fromBytes(<<1>>)}

RECURSIVE SeqsUpTo(_, _)
SeqsUpTo(S, n) ==
    IF n = 0 THEN {<<>>}
    ELSE LET shorter == SeqsUpTo(S, n - 1)
         IN  shorter \cup {Append(s, x) : s \in shorter, x \in S}

(***************************************************************************)
(* The registry actor (main.mo): a map from path to FileReference          *)
(***************************************************************************)
EmptyRegistry == [p \in {} |-> [path |-> p, hash |-> <<>>]]

\* an existing record kept by add
addKeepFirst(reg, p, h) ==
    [q \in DOMAIN reg \cup {p} |->
        IF q \in DOMAIN reg THEN reg[q] ELSE [path |-> p, hash |-> h]]

\* Registry.add(registry, path, hash)
add(reg, p, h) ==
    [q \in DOMAIN reg \cup {p} |->
        IF q = p THEN [path |-> p, hash |-> h] ELSE reg[q]]

\* Registry.get(registry, path), for a path that is present
get(reg, p) == reg[p]

\* Registry.remove(registry, path)
remove(reg, p) == [q \in DOMAIN reg \ {p} |-> reg[q]]

NoError == [type |-> "none", index |-> Null, status |-> 0]
NoResult == [path |-> "", hash |-> <<>>, url |-> DirectURL(<<>>)]


N == Len(chunks)

\* the hash of the first chunk taken for the root hash
blobRootHashFirstLeaf == blobHashTree.chunk_hashes[1]

\* const blobRootHash = blobHashTree.tree.hash
blobRootHash == RootNode(blobHashTree).hash

\* const hash = blobRootHash.toShaString()
hash == toShaString(blobRootHash)

\* the result with the hash as it appears in the URL
PutFileResultEncoded(p, h, u) == [path |-> p, hash |-> u.blob_hash, url |-> u]

\* return { path, hash, url }
PutFileResult(p, h, u) == [path |-> p, hash |-> h, url |-> u]

\* the function whose throw statement raises each type of error
ThrowSite(type) ==
    CASE type = "PathRequired" -> "putFile"
      [] type = "EmptyChunkSequence" -> "BlobHashTree.build"
      [] type = "ChunkHashFailed" -> "processFileForUpload"
      [] type = "TreeRegistrationFailed" -> "uploadBlobTree"
      [] type = "ChunkUploadFailed" -> "uploadChunk"
      [] type = "RegisterFailed" -> "registerFileReference"
      [] type = "RegistryLookupFailed" -> "getFileReference"
      [] OTHER -> "none"

Reject(type, index, status) ==
    /\ pc' = "rejected"
    /\ error' = [type |-> type, index |-> index, status |-> status]

InitPut ==
    /\ path \in PathInputs
    /\ file \in Files
    /\ onProgress \in BOOLEAN
    /\ pc = "call"
    /\ error = NoError
    /\ result = NoResult
    /\ chunks = <<>>
    /\ chunkHashes = <<>>
    /\ blobHashTree = EmptyTree
    /\ worker = <<>>
    /\ completedChunks = 0
    /\ progress = <<>>
    /\ treeRequests = <<>>
    /\ treeResponse = 0
    /\ chunkRequests = EmptyBag
    /\ chunkResponses = EmptyBag
    /\ uploaded = EmptyBag
    /\ failOrder = <<>>
    /\ registry \in {EmptyRegistry, add(EmptyRegistry, "a", OtherHash)}
    /\ registerCalls = <<>>
    /\ registerApplied = FALSE

IdleBuild ==
    /\ builder = <<>>
    /\ buildInput = <<>>
    /\ buildClock = 0

IdlePure ==
    /\ fnArgs = [fn |-> "none"]
    /\ fnResult = [done |-> FALSE, value |-> <<>>]

NoOp == [op |-> "none", path |-> "", hash |-> <<>>, found |-> FALSE]

IdleResolve ==
    /\ resolver = [path |-> "", pc |-> "off", url |-> DirectURL(<<>>), error |-> "none"]
    /\ getCalls = <<>>
    /\ otherOp = NoOp

\* no file selected
NoFile == [name |-> "", image |-> FALSE]

NoPath == [dir |-> "", time |-> 0, name |-> ""]

\* no URL (null)
NoUrl == [kind |-> "none", path |-> NoPath, id |-> 0]

\* no canvas
NoCanvas == [source |-> NoUrl, options |-> [showEdges |-> TRUE]]

\* result: null
NoConversion ==
    [present |-> FALSE, originalUrl |-> NoUrl, quadtreeUrl |-> NoUrl,
     originalPath |-> NoPath, quadtreePath |-> NoPath, quadtreeCanvas |-> NoCanvas]

\* no call of processImage in flight
NotProcessing ==
    [pc |-> "idle", uploadToStorage |-> FALSE, selectedFile |-> NoFile,
     previewUrl |-> NoUrl, quadtreeOptions |-> [showEdges |-> TRUE],
     quadtreeCanvas |-> NoCanvas, originalResult |-> [path |-> NoPath, url |-> NoUrl]]

\* the useState initial values of ImageConverter and useFileUpload
InitApp ==
    /\ converter = [selectedFile |-> NoFile, previewUrl |-> NoUrl,
                    isProcessing |-> FALSE, isUploading |-> FALSE,
                    result |-> NoConversion,
                    quadtreeOptions |-> [showEdges |-> TRUE]]
    /\ processing = NotProcessing
    /\ uploadFileCalls = <<>>
    /\ objectUrls = 0

Init == InitPut /\ IdleBuild /\ IdlePure /\ IdleResolve /\ InitApp

(***************************************************************************)
(* putFile                                                                 *)
(***************************************************************************)
\* putFile up to its first suspension: the path check, createFileChunks
\* and, for a file without chunks, the hashing loop of no iteration and the
\* call of build, which throws at once
putFileStart ==
    /\ pc = "call"
    /\ IF path = ""
       THEN /\ Reject("PathRequired", Null, 0)
            /\ UNCHANGED chunks
       ELSE /\ chunks' = createFileChunks(Len(file), ChunkSize)
            /\ IF Len(chunks') > 0
               THEN pc' = "hashing" /\ UNCHANGED error
               ELSE IF BuildStart(chunkHashes).pc = "error"
                    THEN Reject("EmptyChunkSequence", Null, 0)
                    ELSE pc' = "building" /\ UNCHANGED error
    /\ UNCHANGED <<path, file, onProgress, result, chunkHashes, blobHashTree,
                   worker, completedChunks, progress, treeRequests,
                   treeResponse, chunkRequests, chunkResponses, uploaded,
                   failOrder, registry, registerCalls, registerApplied>>
    /\ UNCHANGED <<buildVars, pureVars, resolveVars, appVars>>

\* processFileForUpload: one iteration of the hashing loop (read the chunk,
\* digest it, push the hash); ok = FALSE when the read or the digest rejects
\* the hash put in front of the ones computed so far
UnshiftHash(hashes, h) == <<h>> \o hashes

\* chunkHashes.push(hash)
PushHash(hashes, h) == Append(hashes, h)

HashChunk(ok) ==
    /\ pc = "hashing"
    /\ IF ok
       THEN /\ chunkHashes' = PushHash(chunkHashes,
                  fromBytes(ChunkData(file, chunks[Len(chunkHashes) + 1])))
            /\ pc' = IF Len(chunkHashes') < N THEN "hashing" ELSE "building"
            /\ UNCHANGED error
       ELSE /\ Reject("ChunkHashFailed", Len(chunkHashes), 0)
            /\ UNCHANGED chunkHashes
    /\ UNCHANGED <<path, file, onProgress, result, chunks, blobHashTree,
                   worker, completedChunks, progress, treeRequests,
                   treeResponse, chunkRequests, chunkResponses, uploaded,
                   failOrder, registry, registerCalls, registerApplied>>
    /\ UNCHANGED <<buildVars, pureVars, resolveVars, appVars>>

\* the body of the PUT /blob-tree request
TreeRequestBody(tree) ==
    [blob_tree |-> toJSON(tree), bucket_name |-> Bucket,
     num_blob_bytes |-> Len(file), owner |-> Owner]

\* BlobHashTree.build resolves, processFileForUpload returns and putFile
\* issues the uploadBlobTree request
BuildAndUploadBlobTree ==
    /\ pc = "building"
    /\ blobHashTree' = build(chunkHashes)
    /\ treeRequests' = Append(treeRequests, TreeRequestBody(blobHashTree'))
    /\ pc' = "uploadBlobTree"
    /\ UNCHANGED <<path, file, onProgress, error, result, chunks, chunkHashes,
                   worker, completedChunks, progress, treeResponse,
                   chunkRequests, chunkResponses, uploaded, failOrder,
                   registry, registerCalls, registerApplied>>
    /\ UNCHANGED <<buildVars, pureVars, resolveVars, appVars>>

\* the gateway answers the tree request; on success putFile enters
\* parallelUpload, where every worker runs to its first suspension
BlobTreeResponse(status) ==
    /\ pc = "uploadBlobTree"
    /\ treeResponse' = status
    /\ IF ResponseOk(status)
       THEN /\ completedChunks' = 0
            /\ worker' = [w \in Workers(N, PoolWidth) |-> WorkerLoop(w, N)]
            /\ pc' = "parallelUpload"
            /\ UNCHANGED error
       ELSE /\ Reject("TreeRegistrationFailed", Null, status)
            /\ UNCHANGED <<completedChunks, worker>>
    /\ UNCHANGED <<path, file, onProgress, result, chunks, chunkHashes,
                   blobHashTree, progress, treeRequests, chunkRequests,
                   chunkResponses, uploaded, failOrder, registry,
                   registerCalls, registerApplied>>
    /\ UNCHANGED <<buildVars, pureVars, resolveVars, appVars>>

\* the body of the PUT /chunk request of a worker for chunk index
ChunkRequestBody(w, index) ==
    [worker |-> w,
     blob_hash |-> toShaString(blobRootHash),
     chunk_hash |-> toShaString(chunkHashes[index + 1]),
     chunk_index |-> index,
     chunk_data |-> ChunkData(file, chunks[index + 1]),
     bucket_name |-> Bucket,
     owner |-> Owner]

\* uploadSingleChunk: the chunk has been read, uploadChunk issues the fetch
SendChunk(w) ==
    /\ w \in DOMAIN worker
    /\ worker[w].phase = "read"
    /\ chunkRequests' = chunkRequests (+) SetToBag({ChunkRequestBody(w, worker[w].i)})
    /\ worker' = [worker EXCEPT ![w].phase = "fetch"]
    /\ UNCHANGED <<path, file, onProgress, pc, error, result, chunks,
                   chunkHashes, blobHashTree, completedChunks, progress,
                   treeRequests, treeResponse, chunkResponses, uploaded,
                   failOrder, registry, registerCalls, registerApplied>>
    /\ UNCHANGED <<buildVars, pureVars, resolveVars, appVars>>

\* the gateway answers a chunk request; uploadChunk goes on to read the
\* body: response.json() on success, response.text() otherwise
ChunkResponse(w, status) ==
    /\ w \in DOMAIN worker
    /\ worker[w].phase = "fetch"
    /\ chunkResponses' = chunkResponses (+)
           SetToBag({[chunk_index |-> worker[w].i, status |-> status]})
    /\ worker' = [worker EXCEPT
                    ![w].phase = IF ResponseOk(status) THEN "json" ELSE "text"]
    /\ UNCHANGED <<path, file, onProgress, pc, error, result, chunks,
                   chunkHashes, blobHashTree, completedChunks, progress,
                   treeRequests, treeResponse, chunkRequests, uploaded,
                   failOrder, registry, registerCalls, registerApplied>>
    /\ UNCHANGED <<buildVars, pureVars, resolveVars, appVars>>

\* uploadChunk returns: the counter is incremented, the callback called,
\* and the worker goes round its loop; when the last worker leaves its loop
\* Promise.all resolves and putFile issues registerFileReference
ChunkUploaded(w) ==
    /\ w \in DOMAIN worker
    /\ worker[w].phase = "json"
    /\ uploaded' = uploaded (+) SetToBag({worker[w].i})
    /\ completedChunks' = PreIncrement(completedChunks, worker[w].i)
    /\ progress' = IF onProgress
                   THEN Append(progress, Percentage(completedChunks', N))
                   ELSE progress
    /\ worker' = [worker EXCEPT ![w] = WorkerLoop(NextStride(worker[w].i, PoolWidth), N)]
    /\ IF pc = "parallelUpload" /\ AllDone(worker')
       THEN /\ pc' = "registerFileReference"
            /\ registerCalls' = Append(registerCalls,
                   [path |-> path, hash |-> hash])
       ELSE UNCHANGED <<pc, registerCalls>>
    /\ UNCHANGED <<path, file, onProgress, error, result, chunks, chunkHashes,
                   blobHashTree, treeRequests, treeResponse, chunkRequests,
                   chunkResponses, failOrder, registry, registerApplied>>
    /\ UNCHANGED <<buildVars, pureVars, resolveVars, appVars>>

\* the worker sends the request for the same chunk again
WorkerRetries(ws) == [ws EXCEPT !.phase = "read"]

\* the throw of uploadChunk leaves the worker's loop: its promise is rejected
WorkerThrows(ws) == [ws EXCEPT !.phase = "failed"]

\* the latest rejection kept
LastRejection(settled, current, new) == new

\* Promise.all settles with the first rejection only
FirstRejection(settled, current, new) == IF settled THEN current ELSE new

\* uploadChunk throws for a non-2xx response: the worker's promise rejects,
\* and Promise.all rejects putFile unless it is settled already
ChunkFailed(w) ==
    /\ w \in DOMAIN worker
    /\ worker[w].phase = "text"
    /\ failOrder' = Append(failOrder, worker[w].i)
    /\ worker' = [worker EXCEPT ![w] = WorkerThrows(worker[w])]
    /\ error' = FirstRejection(pc # "parallelUpload", error,
                   [type |-> "ChunkUploadFailed", index |-> worker[w].i,
                    status |-> 500])
    /\ pc' = IF pc = "parallelUpload" THEN "rejected" ELSE pc
    /\ UNCHANGED <<path, file, onProgress, result, chunks, chunkHashes,
                   blobHashTree, completedChunks, progress, treeRequests,
                   treeResponse, chunkRequests, chunkResponses, uploaded,
                   registry, registerCalls, registerApplied>>
    /\ UNCHANGED <<buildVars, pureVars, resolveVars, appVars>>

\* the registry answers registerFileReference; on success putFile calls
\* getDirectURL(path), which issues getFileReference
RegisterResponse(ok) ==
    /\ pc = "registerFileReference"
    /\ IF ok
       THEN /\ registry' = add(registry, registerCalls[Len(registerCalls)].path,
                                registerCalls[Len(registerCalls)].hash)
            /\ registerApplied' = TRUE
            /\ pc' = "getDirectURL"
            /\ UNCHANGED error
       ELSE /\ Reject("RegisterFailed", Null, 0)
            /\ UNCHANGED <<registry, registerApplied>>
    /\ UNCHANGED <<path, file, onProgress, result, chunks, chunkHashes,
                   blobHashTree, worker, completedChunks, progress,
                   treeRequests, treeResponse, chunkRequests, chunkResponses,
                   uploaded, failOrder, registerCalls>>
    /\ UNCHANGED <<buildVars, pureVars, resolveVars, appVars>>

\* the registry answers getFileReference: the record of the path, or a
\* failure when the path is absent or the call is rejected
DirectURLResponse(ok) ==
    /\ pc = "getDirectURL"
    /\ IF ok /\ path \in DOMAIN registry
       THEN /\ result' = PutFileResult(path, hash, DirectURL(get(registry, path).hash))
            /\ pc' = "resolved"
            /\ UNCHANGED error
       ELSE /\ Reject("RegistryLookupFailed", Null, 0)
            /\ UNCHANGED result
    /\ UNCHANGED <<path, file, onProgress, chunks, chunkHashes, blobHashTree,
                   worker, completedChunks, progress, treeRequests,
                   treeResponse, chunkRequests, chunkResponses, uploaded,
                   failOrder, registry, registerCalls, registerApplied>>
    /\ UNCHANGED <<buildVars, pureVars, resolveVars, appVars>>

(***************************************************************************)
(* Other clients of the registry actor                                     *)
(***************************************************************************)
registerFileReference(p, h) ==
    /\ pc # "off"
    /\ registry' = add(registry, p, h)
    /\ otherOp' = [op |-> "register", path |-> p, hash |-> h, found |-> TRUE]
    /\ UNCHANGED <<path, file, onProgress, pc, error, result, chunks,
                   chunkHashes, blobHashTree, worker, completedChunks,
                   progress, treeRequests, treeResponse, chunkRequests,
                   chunkResponses, uploaded, failOrder, registerCalls,
                   registerApplied>>
    /\ UNCHANGED <<buildVars, pureVars, resolver, getCalls, appVars>>

dropFileReference(p) ==
    /\ pc # "off"
    /\ registry' = remove(registry, p)
    /\ otherOp' = [op |-> "remove", path |-> p, hash |-> <<>>, found |-> TRUE]
    /\ UNCHANGED <<path, file, onProgress, pc, error, result, chunks,
                   chunkHashes, blobHashTree, worker, completedChunks,
                   progress, treeRequests, treeResponse, chunkRequests,
                   chunkResponses, uploaded, failOrder, registerCalls,
                   registerApplied>>
    /\ UNCHANGED <<buildVars, pureVars, resolver, getCalls, appVars>>

Next ==
    \/ putFileStart
    \/ \E ok \in BOOLEAN : HashChunk(ok)
    \/ BuildAndUploadBlobTree
    \/ \E status \in GatewayStatuses : BlobTreeResponse(status)
    \/ \E w \in DOMAIN worker : SendChunk(w)
    \/ \E w \in DOMAIN worker, status \in GatewayStatuses : ChunkResponse(w, status)
    \/ \E w \in DOMAIN worker : ChunkUploaded(w)
    \/ \E w \in DOMAIN worker : ChunkFailed(w)
    \/ \E ok \in BOOLEAN : RegisterResponse(ok)
    \/ \E ok \in BOOLEAN : DirectURLResponse(ok)
    \/ \E p \in RegistryPaths : registerFileReference(p, OtherHash)
    \/ \E p \in RegistryPaths : dropFileReference(p)

Spec == Init /\ [][Next]_vars

\* putFile while the other clients leave its path alone
NextQuiet ==
    \/ putFileStart
    \/ \E ok \in BOOLEAN : HashChunk(ok)
    \/ BuildAndUploadBlobTree
    \/ \E status \in GatewayStatuses : BlobTreeResponse(status)
    \/ \E w \in DOMAIN worker : SendChunk(w)
    \/ \E w \in DOMAIN worker, status \in GatewayStatuses : ChunkResponse(w, status)
    \/ \E w \in DOMAIN worker : ChunkUploaded(w)
    \/ \E w \in DOMAIN worker : ChunkFailed(w)
    \/ \E ok \in BOOLEAN : RegisterResponse(ok)
    \/ \E ok \in BOOLEAN : DirectURLResponse(ok)
    \/ \E p \in RegistryPaths \ {path} : registerFileReference(p, OtherHash)
    \/ \E p \in RegistryPaths \ {path} : dropFileReference(p)

SpecQuiet == Init /\ [][NextQuiet]_vars

(***************************************************************************)
(* Independent calls of BlobHashTree.build over the same chunk hashes,     *)
(* interleaved at the awaits of the digest                                 *)
(***************************************************************************)
Builders == 1..2

IdleBuilder ==
    [pc |-> "idle", level |-> <<>>, nextLevel |-> <<>>, index |-> 0,
     levels |-> <<>>]

IdlePut ==
    /\ path = ""
    /\ file = <<>>
    /\ onProgress = FALSE
    /\ pc = "off"
    /\ error = NoError
    /\ result = NoResult
    /\ chunks = <<>>
    /\ chunkHashes = <<>>
    /\ blobHashTree = EmptyTree
    /\ worker = <<>>
    /\ completedChunks = 0
    /\ progress = <<>>
    /\ treeRequests = <<>>
    /\ treeResponse = 0
    /\ chunkRequests = EmptyBag
    /\ chunkResponses = EmptyBag
    /\ uploaded = EmptyBag
    /\ failOrder = <<>>
    /\ registry = EmptyRegistry
    /\ registerCalls = <<>>
    /\ registerApplied = FALSE

InitBuild ==
    /\ IdlePut
    /\ InitApp
    /\ IdlePure
    /\ IdleResolve
    /\ buildInput \in SeqsUpTo(DigestInputs, MaxBuildChunks)
    /\ builder = [b \in Builders |-> IdleBuilder]
    /\ buildClock = 0

\* build is called: the empty check and the leaf level
BuildCall(b) ==
    /\ builder[b].pc = "idle"
    /\ builder' = [builder EXCEPT ![b] = BuildStart(buildInput)]
    /\ buildClock' = buildClock + 1
    /\ UNCHANGED buildInput
    /\ UNCHANGED <<putVars, pureVars, resolveVars, appVars>>

\* one pair of the current level is combined
BuildPair(b) ==
    /\ builder[b].pc = "pair"
    /\ builder' = [builder EXCEPT ![b] = BuildStep(builder[b])]
    /\ buildClock' = buildClock + 1
    /\ UNCHANGED buildInput
    /\ UNCHANGED <<putVars, pureVars, resolveVars, appVars>>

NextBuild ==
    \/ \E b \in Builders : BuildCall(b)
    \/ \E b \in Builders : BuildPair(b)

SpecBuild == InitBuild /\ [][NextBuild]_vars

(***************************************************************************)
(* getDirectURL on its own, beside other clients of the registry actor     *)
(***************************************************************************)
\* the path test that never fires
PathMissingNever(p) == FALSE

\* !path
PathMissing(p) == p = ""

InitResolve ==
    /\ InitApp
    /\ InitPut
    /\ path = ""
    /\ file = <<>>
    /\ onProgress = FALSE
    /\ IdleBuild
    /\ IdlePure
    /\ resolver \in {[path |-> p, pc |-> "call", url |-> DirectURL(<<>>),
                       error |-> "none"] : p \in ResolvePaths}
    /\ getCalls = <<>>
    /\ otherOp = NoOp

\* getDirectURL up to its first suspension: the path check and the call of
\* actor.getFileReference
getDirectURLStart ==
    /\ resolver.pc = "call"
    /\ IF PathMissing(resolver.path)
       THEN /\ resolver' = [resolver EXCEPT !.pc = "rejected", !.error = "EmptyPath"]
            /\ UNCHANGED getCalls
       ELSE /\ resolver' = [resolver EXCEPT !.pc = "getFileReference"]
            /\ getCalls' = Append(getCalls, resolver.path)
    /\ UNCHANGED otherOp
    /\ UNCHANGED <<putVars, buildVars, pureVars, appVars>>

\* the registry answers getFileReference: getDirectURL returns the URL of
\* the record's hash, or rejects with the failure of the lookup
GetFileReferenceResponse(ok) ==
    /\ resolver.pc = "getFileReference"
    /\ IF ok /\ resolver.path \in DOMAIN registry
       THEN resolver' = [resolver EXCEPT
                            !.pc = "resolved",
                            !.url = DirectURL(get(registry, resolver.path).hash)]
       ELSE resolver' = [resolver EXCEPT
                            !.pc = "rejected", !.error = "RegistryLookupFailed"]
    /\ UNCHANGED <<getCalls, otherOp>>
    /\ UNCHANGED <<putVars, buildVars, pureVars, appVars>>

\* another client looks a path up: a query, answered with the record or a
\* failure
getFileReference(p) ==
    /\ pc # "off"
    /\ otherOp' = IF p \in DOMAIN registry
                  THEN [op |-> "lookup", path |-> p,
                        hash |-> get(registry, p).hash, found |-> TRUE]
                  ELSE [op |-> "lookup", path |-> p, hash |-> <<>>, found |-> FALSE]
    /\ UNCHANGED <<resolver, getCalls>>
    /\ UNCHANGED <<putVars, buildVars, pureVars, appVars>>

NextResolve ==
    \/ getDirectURLStart
    \/ \E ok \in BOOLEAN : GetFileReferenceResponse(ok)
    \/ \E p \in RegistryPaths, h \in OtherHashes : registerFileReference(p, h)
    \/ \E p \in RegistryPaths : dropFileReference(p)
    \/ \E p \in RegistryPaths : getFileReference(p)

SpecResolve == InitResolve /\ [][NextResolve]_vars

(***************************************************************************)
(* createFileChunks on its own, over file sizes and chunk sizes            *)
(***************************************************************************)
ChunkerSizes ==
    (0..MaxChunkerSize)
    \cup {3 * DefaultChunkSize - 1, 3 * DefaultChunkSize, 3 * DefaultChunkSize + 1}

ChunkerArgs ==
    {[fn |-> "createFileChunks", size |-> s, chunkSize |-> c] :
        s \in 0..MaxChunkerSize, c \in 1..MaxChunkSize}
    \cup {[fn |-> "createFileChunks", size |-> s, chunkSize |-> DefaultChunkSize] :
        s \in ChunkerSizes}

InitChunker ==
    /\ IdlePut
    /\ InitApp
    /\ IdleBuild
    /\ IdleResolve
    /\ fnArgs \in ChunkerArgs
    /\ fnResult = [done |-> FALSE, value |-> <<>>]

createFileChunksCall ==
    /\ fnArgs.fn = "createFileChunks"
    /\ ~fnResult.done
    /\ fnResult' = [done |-> TRUE,
                    value |-> createFileChunks(fnArgs.size, fnArgs.chunkSize)]
    /\ UNCHANGED fnArgs
    /\ UNCHANGED <<putVars, buildVars, resolveVars, appVars>>

NextChunker == createFileChunksCall

SpecChunker == InitChunker /\ [][NextChunker]_vars

(***************************************************************************)
(* ImageConverter: file selection, processImage, regenerateArt and reset.  *)
(* An uploadFile call stands for the putFile it makes.                     *)
(***************************************************************************)
ImageFiles ==
    {[name |-> "p", image |-> TRUE], [name |-> "q", image |-> TRUE],
     [name |-> "t", image |-> FALSE]}

\* URL.createObjectURL: a new URL at every call
ObjectUrl(n) == [kind |-> "blob", path |-> NoPath, id |-> n]

\* the url of the result of uploadFile(path, ...)
UploadedUrl(p) == [kind |-> "gateway", path |-> p, id |-> 0]

\* the upload made whatever the argument
ShouldUploadAlways(uploadToStorage) == TRUE

\* if (uploadToStorage)
ShouldUpload(uploadToStorage) == uploadToStorage

\* a regeneration in flight, which will create an object URL
Regenerating == processing.pc # "idle" /\ ~processing.uploadToStorage

\* a file is dropped or chosen in the upload area, shown while result is null
handleFileSelection(f) ==
    /\ ~converter.result.present
    /\ objectUrls + (IF Regenerating THEN 1 ELSE 0) < MaxObjectUrls
    /\ IF ~f.image
       THEN UNCHANGED <<converter, objectUrls>>
       ELSE /\ objectUrls' = objectUrls + 1
            /\ converter' = [converter EXCEPT
                                !.selectedFile = f,
                                !.previewUrl = ObjectUrl(objectUrls'),
                                !.result = NoConversion]
    /\ UNCHANGED <<processing, uploadFileCalls>>
    /\ UNCHANGED <<putVars, buildVars, pureVars, resolveVars>>

\* a setting is changed in the settings panel
updateOption(value) ==
    /\ converter.previewUrl # NoUrl \/ converter.result.present
    /\ converter' = [converter EXCEPT !.quadtreeOptions.showEdges = value]
    /\ UNCHANGED <<processing, uploadFileCalls, objectUrls>>
    /\ UNCHANGED <<putVars, buildVars, pureVars, resolveVars>>

\* processImage(uploadToStorage) up to its first suspension; the Convert
\* button is shown while result is null and disabled while processing or
\* uploading, the Regenerate button is shown with a result and disabled
\* while processing
processImageStart(uploadToStorage) ==
    /\ ~converter.isProcessing
    /\ IF uploadToStorage
       THEN /\ ~converter.result.present
            /\ converter.previewUrl # NoUrl
            /\ ~converter.isUploading
            /\ Len(uploadFileCalls) + 2 <= MaxUploadCalls
       ELSE /\ converter.result.present
            /\ objectUrls < MaxObjectUrls
    /\ IF converter.selectedFile = NoFile \/ converter.previewUrl = NoUrl
       THEN UNCHANGED <<converter, processing>>
       ELSE /\ converter' = [converter EXCEPT !.isProcessing = TRUE]
            /\ processing' = [NotProcessing EXCEPT
                                 !.pc = "generate",
                                 !.uploadToStorage = uploadToStorage,
                                 !.selectedFile = converter.selectedFile,
                                 !.previewUrl = converter.previewUrl,
                                 !.quadtreeOptions = converter.quadtreeOptions]
    /\ UNCHANGED <<uploadFileCalls, objectUrls>>
    /\ UNCHANGED <<putVars, buildVars, pureVars, resolveVars>>

\* generateQuadtreeArt settles; a rejection goes to catch and finally
GenerateDone(ok) ==
    /\ processing.pc = "generate"
    /\ IF ok
       THEN /\ processing' = [processing EXCEPT
                                 !.pc = "toBlob",
                                 !.quadtreeCanvas =
                                     [source |-> processing.previewUrl,
                                      options |-> processing.quadtreeOptions]]
            /\ UNCHANGED converter
       ELSE /\ processing' = NotProcessing
            /\ converter' = [converter EXCEPT !.isProcessing = FALSE]
    /\ UNCHANGED <<uploadFileCalls, objectUrls>>
    /\ UNCHANGED <<putVars, buildVars, pureVars, resolveVars>>

\* canvas.toBlob answers: either the original is uploaded, or the result is
\* given the new quadtree image and processImage ends
ToBlobDone(now) ==
    /\ processing.pc = "toBlob"
    /\ IF ShouldUpload(processing.uploadToStorage)
       THEN /\ uploadFileCalls' = Append(uploadFileCalls,
                   [path |-> [dir |-> "originals", time |-> now,
                              name |-> processing.selectedFile.name],
                    file |-> processing.selectedFile.name])
            /\ converter' = [converter EXCEPT !.isUploading = TRUE]
            /\ processing' = [processing EXCEPT !.pc = "uploadOriginal"]
            /\ UNCHANGED objectUrls
       ELSE /\ objectUrls' = objectUrls + 1
            /\ converter' = [converter EXCEPT
                   !.result = IF converter.result.present
                              THEN [converter.result EXCEPT
                                       !.quadtreeUrl = ObjectUrl(objectUrls'),
                                       !.quadtreeCanvas = processing.quadtreeCanvas]
                              ELSE NoConversion,
                   !.isProcessing = FALSE]
            /\ processing' = NotProcessing
            /\ UNCHANGED uploadFileCalls
    /\ UNCHANGED <<putVars, buildVars, pureVars, resolveVars>>

\* uploadFile of the original settles: the quadtree image is uploaded next,
\* or the rejection goes to catch and finally
UploadOriginalDone(ok, now) ==
    /\ processing.pc = "uploadOriginal"
    /\ IF ok
       THEN /\ uploadFileCalls' = Append(uploadFileCalls,
                   [path |-> [dir |-> "quadtree", time |-> now,
                              name |-> "quadtree.png"],
                    file |-> "quadtree_art.png"])
            /\ processing' = [processing EXCEPT
                   !.pc = "uploadQuadtree",
                   !.originalResult =
                       [path |-> uploadFileCalls[Len(uploadFileCalls)].path,
                        url |-> UploadedUrl(uploadFileCalls[Len(uploadFileCalls)].path)]]
            /\ UNCHANGED converter
       ELSE /\ processing' = NotProcessing
            /\ converter' = [converter EXCEPT
                                !.isUploading = FALSE, !.isProcessing = FALSE]
            /\ UNCHANGED uploadFileCalls
    /\ UNCHANGED objectUrls
    /\ UNCHANGED <<putVars, buildVars, pureVars, resolveVars>>

\* uploadFile of the quadtree image settles: setResult with both uploads
UploadQuadtreeDone(ok) ==
    /\ processing.pc = "uploadQuadtree"
    /\ converter' = [converter EXCEPT
           !.result = IF ok
                      THEN [present |-> TRUE,
                            originalUrl |-> processing.originalResult.url,
                            quadtreeUrl |->
                                UploadedUrl(uploadFileCalls[Len(uploadFileCalls)].path),
                            originalPath |-> processing.originalResult.path,
                            quadtreePath |-> uploadFileCalls[Len(uploadFileCalls)].path,
                            quadtreeCanvas |-> processing.quadtreeCanvas]
                      ELSE converter.result,
           !.isUploading = FALSE,
           !.isProcessing = FALSE]
    /\ processing' = NotProcessing
    /\ UNCHANGED <<uploadFileCalls, objectUrls>>
    /\ UNCHANGED <<putVars, buildVars, pureVars, resolveVars>>

\* Choose Different Image / Convert Another Image
reset ==
    /\ converter' = [converter EXCEPT
                        !.selectedFile = NoFile,
                        !.previewUrl = NoUrl,
                        !.result = NoConversion]
    /\ UNCHANGED <<processing, uploadFileCalls, objectUrls>>
    /\ UNCHANGED <<putVars, buildVars, pureVars, resolveVars>>

InitConverter == IdlePut /\ IdleBuild /\ IdlePure /\ IdleResolve /\ InitApp

NextConverter ==
    \/ \E f \in ImageFiles : handleFileSelection(f)
    \/ \E value \in BOOLEAN : updateOption(value)
    \/ \E uploadToStorage \in BOOLEAN : processImageStart(uploadToStorage)
    \/ \E ok \in BOOLEAN : GenerateDone(ok)
    \/ \E now \in 1..MaxTime : ToBlobDone(now)
    \/ \E ok \in BOOLEAN, now \in 1..MaxTime : UploadOriginalDone(ok, now)
    \/ \E ok \in BOOLEAN : UploadQuadtreeDone(ok)
    \/ reset

SpecConverter == InitConverter /\ [][NextConverter]_vars

(***************************************************************************)
(* The text form of a digest: toShaString and fromShaString on their own   *)
(***************************************************************************)
\* 32-byte digests
DigestBytes(step, offset) ==
    [k \in 1..YHASH_BYTES |-> (step * k * k + 15 * offset) % 256]

Repeat(c, n) == [k \in 1..n |-> c]

\* strings given to fromShaString
TaggedTexts ==
    { toShaString(DigestBytes(1, 0)),
      Repeat(48, 64),
      <<109, 100, 53, 58>> \o Repeat(97, 60),
      <<115, 104, 97, 53, 49, 50, 58>> \o Repeat(97, 64),
      <<120, 120>> \o ShaPrefix \o Repeat(49, 62),
      ShaPrefix \o Repeat(48, 62) \o <<122, 122>>,
      ShaPrefix \o Repeat(103, 64),
      ShaPrefix \o <<45, 49>> \o Repeat(50, 62),
      ShaPrefix \o <<48, 120>> \o Repeat(50, 62),
      ShaPrefix \o <<32, 51>> \o Repeat(50, 62),
      ShaPrefix \o Repeat(70, 32) \o <<10>> \o Repeat(101, 32),
      ShaPrefix \o Repeat(52, 63),
      ShaPrefix \o Repeat(52, 66),
      ShaPrefix,
      <<>> }

DigestArgs ==
    {[fn |-> "toShaString", bytes |-> DigestBytes(a, b), text |-> <<>>] :
        a \in 0..MaxDigestStep, b \in 0..MaxDigestOffset}
    \cup {[fn |-> "fromShaString", bytes |-> <<>>, text |-> t] : t \in TaggedTexts}

InitDigest ==
    /\ IdlePut
    /\ InitApp
    /\ IdleBuild
    /\ IdleResolve
    /\ fnArgs \in DigestArgs
    /\ fnResult = [done |-> FALSE, value |-> <<>>]

\* d.toShaString(), whose value is then given to fromShaString
toShaStringCall ==
    /\ fnArgs.fn = "toShaString"
    /\ ~fnResult.done
    /\ fnArgs' = [fnArgs EXCEPT !.fn = "fromShaString",
                                !.text = toShaString(fnArgs.bytes)]
    /\ UNCHANGED fnResult
    /\ UNCHANGED <<putVars, buildVars, resolveVars, appVars>>

\* YHash.fromShaString(text) returns or throws
fromShaStringCall ==
    /\ fnArgs.fn = "fromShaString"
    /\ ~fnResult.done
    /\ fnResult' = [done |-> TRUE, value |-> fromShaString(fnArgs.text)]
    /\ UNCHANGED fnArgs
    /\ UNCHANGED <<putVars, buildVars, resolveVars, appVars>>

NextDigest == toShaStringCall \/ fromShaStringCall

SpecDigest == InitDigest /\ [][NextDigest]_vars

(***************************************************************************)
(* Properties                                                              *)
(***************************************************************************)
Success == 200..299

\* chunk upload requests issued and neither returned nor thrown yet
InFlight == BagCardinality(chunkRequests) - BagCardinality(uploaded) - Len(failOrder)

\* number of chunk upload requests issued for chunk index i
RequestsFor(i) ==
    BagCardinality([r \in {q \in BagToSet(chunkRequests) : q.chunk_index = i}
                      |-> chunkRequests[r]])

\* C1: the register-tree request has been answered with success before any
\* chunk upload request is issued; when it fails putFile rejects with the
\* tree registration error and no chunk upload request is issued
C1_TreeBeforeChunks ==
    /\ BagCardinality(chunkRequests) > 0 => treeResponse \in Success
    /\ worker # <<>> => treeResponse \in Success
    /\ (treeResponse # 0 /\ treeResponse \notin Success) =>
          /\ pc = "rejected"
          /\ error.type = "TreeRegistrationFailed"
          /\ BagCardinality(chunkRequests) = 0

C1_Witness ==
    /\ BagCardinality(chunkRequests) > 0
    /\ treeResponse = 200
    /\ Len(treeRequests) = 1

\* C2: registerFileReference is called only when every chunk index 0..N-1
\* has been uploaded successfully: none unsent, in flight or failed
C2_RegisterAfterAllChunks ==
    Len(registerCalls) > 0 =>
        /\ failOrder = <<>>
        /\ InFlight = 0
        /\ \A i \in 0..(N - 1) :
              /\ RequestsFor(i) >= 1
              /\ CopiesIn([chunk_index |-> i, status |-> 200], chunkResponses) >= 1
              /\ CopiesIn([chunk_index |-> i, status |-> 500], chunkResponses) = 0
              /\ CopiesIn(i, uploaded) >= 1

C2_Witness == Len(registerCalls) > 0 /\ N > PoolWidth

\* C3: whenever putFile rejects, no registry entry has been written by it
C3_NoEntryWhenRejected == pc = "rejected" => ~registerApplied

\* the indices of a stride, as a set
StrideSet(w, n, width) ==
    {StrideFrom(w, n, width)[k] : k \in 1..Len(StrideFrom(w, n, width))}

\* for every N up to MaxStrideChunks and the pool width of the program, the
\* loop of worker w visits exactly the indices below N congruent to w, and
\* every index below N belongs to exactly one worker
StridePartition ==
    \A n \in 1..MaxStrideChunks :
        /\ \A w \in 0..(MAXIMUM_CONCURRENT_UPLOADS - 1) :
              StrideSet(w, n, MAXIMUM_CONCURRENT_UPLOADS) =
                 {i \in 0..(n - 1) : i % MAXIMUM_CONCURRENT_UPLOADS = w}
        /\ \A i \in 0..(n - 1) :
              Cardinality({w \in 0..(MAXIMUM_CONCURRENT_UPLOADS - 1) :
                 i \in StrideSet(w, n, MAXIMUM_CONCURRENT_UPLOADS)}) = 1

\* C4: worker w is assigned exactly the indices w, w+W, w+2W, ... below N,
\* the workers' index sets are disjoint and cover 0..N-1 (for every N up to
\* 23 with W = 10 as well), every request is sent by the worker owning its
\* index, no index is sent twice, and after a successful run every index
\* has been sent exactly once
C4_StrideExactlyOnce ==
    /\ StridePartition
    /\ \A r \in BagToSet(chunkRequests) :
          /\ r.chunk_index \in 0..(N - 1)
          /\ r.chunk_index % PoolWidth = r.worker
          /\ RequestsFor(r.chunk_index) = 1
    /\ Len(registerCalls) > 0 => \A i \in 0..(N - 1) : RequestsFor(i) = 1

C4_Witness ==
    /\ Len(registerCalls) > 0
    /\ N > PoolWidth
    /\ BagCardinality(chunkRequests) = N

\* C5: once a chunk upload has failed, putFile is rejected with the chunk
\* upload error of the first failed index, which the gateway answered with
\* a non-2xx status, and registerFileReference has not been called
C5_FirstChunkFailure ==
    failOrder # <<>> =>
        /\ pc = "rejected"
        /\ error.type = "ChunkUploadFailed"
        /\ error.index = failOrder[1]
        /\ CopiesIn([chunk_index |-> error.index, status |-> 500], chunkResponses) >= 1
        /\ registerCalls = <<>>
        /\ ~registerApplied

C5_Witness == Len(failOrder) >= 2 /\ failOrder[1] = 2 /\ error.index = 2

\* C6: after the first chunk upload failure no new chunk upload request is
\* issued
C6_NoRequestAfterFailure ==
    [][failOrder # <<>> => chunkRequests' = chunkRequests]_vars

\* C7: completedChunks equals the number of chunk uploads that have
\* returned successfully, and equals N when parallelUpload has resolved
C7_CounterExact ==
    /\ completedChunks = BagCardinality(uploaded)
    /\ Len(registerCalls) > 0 => completedChunks = N

C7_Witness ==
    /\ completedChunks = N
    /\ N > PoolWidth
    /\ Len(registerCalls) > 0

\* p is x = k / n * 100 rounded to the nearest integer, halves rounded up
IsRounded(p, k, n) == 2 * (p * n - 100 * k) <= n /\ 2 * (100 * k - p * n) < n

\* C8: with a callback supplied, the k-th call reports round(k / N * 100),
\* one call per increment, and once parallelUpload has resolved the last
\* call reported 100
C8_ProgressEndsAt100 ==
    /\ ~onProgress => progress = <<>>
    /\ onProgress =>
          /\ Len(progress) = BagCardinality(uploaded)
          /\ \A k \in 1..Len(progress) : IsRounded(progress[k], k, N)
          /\ Len(registerCalls) > 0 =>
                (progress # <<>> /\ progress[Len(progress)] = 100)

C8_Witness ==
    /\ pc = "resolved"
    /\ onProgress
    /\ Len(progress) >= 3
    /\ progress[Len(progress)] = 100

\* C9: at most PoolWidth chunk upload requests are in flight at any moment,
\* and the pool has PoolWidth workers whatever the number of chunks
C9_BoundedInFlight ==
    /\ InFlight <= PoolWidth
    /\ worker # <<>> => DOMAIN worker = 0..(PoolWidth - 1)

C9_Witness == InFlight = PoolWidth /\ N > PoolWidth

LevelsSoFar(st) ==
    IF st.nextLevel = <<>> THEN st.levels ELSE Append(st.levels, st.nextLevel)

\* node is an internal node over the level lower: it has a left child and
\* its hash is the digest of the left child's hash followed by the right
\* child's hash, or by the sentinel when the right child is absent
InternalNodeOK(lower, node) ==
    /\ node.left \in 0..(Len(lower) - 1)
    /\ node.right \in (0..(Len(lower) - 1)) \cup {Null}
    /\ node.hash = <<254>> \o lower[node.left + 1].hash
                          \o (IF node.right = Null
                              THEN <<85, 78, 66, 65, 76, 65, 78, 67, 69, 68>>
                              ELSE lower[node.right + 1].hash)
                          \o <<255>>

\* C11: in every tree under construction or returned by build, every
\* internal node has a left child and the digest of left ++ right, or of
\* left ++ sentinel without a right child; every leaf has no children and
\* carries the chunk digest of its position
C11_NodeDigests ==
    \A b \in Builders :
        builder[b].pc \in {"pair", "done"} =>
            LET ls == LevelsSoFar(builder[b])
            IN  /\ Len(ls[1]) = Len(buildInput)
                /\ \A k \in 1..Len(ls[1]) :
                      /\ ls[1][k].left = Null
                      /\ ls[1][k].right = Null
                      /\ ls[1][k].hash = buildInput[k]
                /\ \A l \in 2..Len(ls) : \A k \in 1..Len(ls[l]) :
                      InternalNodeOK(ls[l - 1], ls[l][k])

C11_Witness ==
    /\ builder[1].pc = "done"
    /\ Len(buildInput) = 3
    /\ builder[1].levels[2][2].right = Null
    /\ builder[1].levels[2][1].right = 1


\* C12: the tree is built bottom-up by levels: node k of the next level has
\* node 2k of the current level as left child and node 2k+1 as right child,
\* absent only for the last node of an odd-sized level, until one node
\* remains; the leaves in order are the input chunk hashes, and three chunks
\* give two levels above the leaves (0 and 1 paired, 2 with the sentinel)
C12_LevelShape ==
    \A b \in Builders :
        builder[b].pc = "done" =>
            LET ls == builder[b].levels
            IN  /\ [k \in 1..Len(ls[1]) |-> ls[1][k].hash] = buildInput
                /\ Len(ls[Len(ls)]) = 1
                /\ \A l \in 1..(Len(ls) - 1) :
                      /\ Len(ls[l]) > 1
                      /\ 2 * Len(ls[l + 1]) \in {Len(ls[l]), Len(ls[l]) + 1}
                      /\ \A k \in 0..(Len(ls[l + 1]) - 1) :
                            /\ ls[l + 1][k + 1].left = 2 * k
                            /\ ls[l + 1][k + 1].right =
                                  IF 2 * k + 1 < Len(ls[l]) THEN 2 * k + 1 ELSE Null
                /\ Len(buildInput) = 3 =>
                      /\ Len(ls) = 3
                      /\ Len(ls[2]) = 2
                      /\ ls[2][1].left = 0 /\ ls[2][1].right = 1
                      /\ ls[2][2].left = 2 /\ ls[2][2].right = Null

C12_Witness ==
    /\ builder[2].pc = "done"
    /\ Len(buildInput) = 3
    /\ Len(builder[2].levels) = 3
    /\ builder[2].levels[3][1].right = 1


\* C13: for a single chunk hash the root digest is the digest of the chunk
\* hash followed by the sentinel, and the tree has height 1
C13_SingleChunkSentinel ==
    \A b \in Builders :
        (builder[b].pc = "done" /\ Len(buildInput) = 1) =>
            /\ Len(builder[b].levels) = 2
            /\ builder[b].level[1].hash =
                  <<254>> \o buildInput[1]
                          \o <<85, 78, 66, 65, 76, 65, 78, 67, 69, 68>> \o <<255>>

\* C13 as amended: for a single chunk hash the root is the leaf itself: its
\* digest is the chunk hash, it has no children, and the tree has height 0
C13_SingleChunkRootIsLeaf ==
    \A b \in Builders :
        (builder[b].pc = "done" /\ Len(buildInput) = 1) =>
            /\ Len(builder[b].levels) = 1
            /\ builder[b].level = builder[b].levels[1]
            /\ Len(builder[b].level) = 1
            /\ builder[b].level[1].hash = buildInput[1]
            /\ builder[b].level[1].left = Null
            /\ builder[b].level[1].right = Null

C13_Witness ==
    /\ builder[1].pc = "done"
    /\ Len(buildInput) = 1
    /\ builder[1].level[1].hash = buildInput[1]


\* C14: for chunk hashes of odd length > 1, the parent of an unpaired last
\* node differs from the digest of its hash paired with itself, and the
\* root differs from the root of the input with its last hash duplicated
C14_SentinelDistinct ==
    \A b \in Builders :
        (builder[b].pc = "done" /\ Len(buildInput) > 1 /\ Len(buildInput) % 2 = 1) =>
            LET ls == builder[b].levels
                last == buildInput[Len(buildInput)]
            IN  /\ \A l \in 1..(Len(ls) - 1) :
                      Len(ls[l]) % 2 = 1 =>
                         ls[l + 1][Len(ls[l + 1])].hash #
                            <<254>> \o ls[l][Len(ls[l])].hash
                                    \o ls[l][Len(ls[l])].hash \o <<255>>
                /\ builder[b].level[1].hash #
                      RootNode(build(Append(buildInput, last))).hash

C14_Witness ==
    /\ builder[1].pc = "done"
    /\ Len(buildInput) = 5
    /\ Len(builder[1].levels[2]) = 3
    /\ builder[1].levels[2][3].right = Null
    /\ builder[1].levels[3][2].right = Null


\* the tagged root hash of the tree registered with the gateway
RegisteredRoot ==
    LET t == treeRequests[1].blob_tree.tree IN t[Len(t)][1].hash

\* C15: every chunk upload request carries the root hash of the tree this
\* putFile registered with the gateway beforehand and the chunk hash the
\* registered tree lists at the request's index; the hash passed to the
\* registry and the hash returned are the tagged string of that same root
C15_RequestsMatchTree ==
    /\ \A r \in BagToSet(chunkRequests) :
          /\ Len(treeRequests) = 1
          /\ treeResponse \in Success
          /\ r.blob_hash = RegisteredRoot
          /\ r.chunk_index + 1 \in 1..Len(treeRequests[1].blob_tree.chunk_hashes)
          /\ r.chunk_hash = treeRequests[1].blob_tree.chunk_hashes[r.chunk_index + 1]
    /\ \A k \in 1..Len(registerCalls) :
          /\ registerCalls[k].hash = RegisteredRoot
          /\ SubSeq(registerCalls[k].hash, 1, 7) = <<115, 104, 97, 50, 53, 54, 58>>
    /\ pc = "resolved" => result.hash = RegisteredRoot

C15_Witness ==
    /\ pc = "resolved"
    /\ N > PoolWidth
    /\ BagCardinality(chunkRequests) = N
    /\ result.hash = RegisteredRoot


NothingSent ==
    /\ treeRequests = <<>>
    /\ BagCardinality(chunkRequests) = 0
    /\ registerCalls = <<>>
    /\ ~registerApplied

C18_ChunkRanges ==
    fnResult.done =>
        LET S == fnArgs.size
            C == fnArgs.chunkSize
            r == fnResult.value
            n == Len(r)
        IN  /\ n * C >= S
            /\ n > 0 => (n - 1) * C < S
            /\ S = 0 => n = 0
            /\ \A i \in 0..(n - 1) :
                  /\ r[i + 1].start = i * C
                  /\ r[i + 1].end = IF (i + 1) * C < S THEN (i + 1) * C ELSE S
                  /\ r[i + 1].start < r[i + 1].end
                  /\ i < n - 1 => r[i + 1].end - r[i + 1].start = C
                  /\ i < n - 1 => r[i + 1].end = r[i + 2].start
            /\ n > 0 =>
                  /\ r[1].start = 0
                  /\ r[n].end = S
                  /\ r[n].end - r[n].start <= C
            /\ (S = 3 * DefaultChunkSize /\ C = DefaultChunkSize) => n = 3

C18_Witness ==
    /\ fnResult.done
    /\ fnArgs.size = 7
    /\ fnArgs.chunkSize = 3
    /\ Len(fnResult.value) = 3
    /\ fnResult.value[3] = [start |-> 6, end |-> 7]


\* C19: chunkHashes holds, in chunk order, the digest of the bytes of each
\* chunk hashed so far; once the tree is built there is one entry per chunk
\* and the tree's chunk digests and leaves are these entries in this order
C19_HashOrder ==
    /\ \A k \in 1..Len(chunkHashes) :
          chunkHashes[k] =
              <<254>>
              \o SubSeq(file, (k - 1) * ChunkSize + 1,
                        IF k * ChunkSize < Len(file) THEN k * ChunkSize ELSE Len(file))
              \o <<255>>
    /\ blobHashTree # EmptyTree =>
          /\ Len(chunkHashes) * ChunkSize >= Len(file)
          /\ (Len(chunkHashes) - 1) * ChunkSize < Len(file)
          /\ blobHashTree.chunk_hashes = chunkHashes
          /\ Len(blobHashTree.levels[1]) = Len(chunkHashes)
          /\ \A k \in 1..Len(chunkHashes) :
                blobHashTree.levels[1][k].hash = chunkHashes[k]

C19_Witness ==
    /\ blobHashTree # EmptyTree
    /\ Len(chunkHashes) >= 3
    /\ chunkHashes[1] # chunkHashes[2]
    /\ chunkHashes[2] # chunkHashes[3]

\* C20: within one putFile the register-tree request is issued at most
\* once and every chunk index is sent at most once; a failed tree request
\* or chunk request has been issued exactly once
C20_NoRetry ==
    /\ Len(treeRequests) <= 1
    /\ \A i \in 0..MaxFileSize : RequestsFor(i) <= 1
    /\ \A k \in 1..Len(failOrder) : RequestsFor(failOrder[k]) = 1
    /\ (pc = "rejected" /\ error.type = "TreeRegistrationFailed") =>
          Len(treeRequests) = 1

C20_Witness ==
    /\ pc = "rejected"
    /\ failOrder # <<>>
    /\ \A w \in DOMAIN worker : worker[w].phase \in {"done", "failed"}
    /\ RequestsFor(failOrder[1]) = 1
    /\ Len(treeRequests) = 1


\* C21: getDirectURL called with an empty path rejects with EmptyPath and
\* issues neither a registry lookup nor a gateway request
C21_EmptyPathNoCall ==
    resolver.path = "" =>
        /\ resolver.pc \in {"off", "call", "rejected"}
        /\ resolver.pc = "rejected" => resolver.error = "EmptyPath"
        /\ getCalls = <<>>
        /\ treeRequests = <<>>
        /\ chunkRequests = EmptyBag

C21_Witness ==
    /\ resolver.path = ""
    /\ resolver.pc = "rejected"
    /\ resolver.error = "EmptyPath"

\* C22: getDirectURL of a non-empty path issues no gateway request; when the
\* lookup is answered and the path is absent it rejects with the lookup's
\* failure, and when it resolves the URL is made of the gateway base URL,
\* the encoded hash stored for the path at that moment and the owner
C22_UrlFromStoredHash ==
    [][/\ treeRequests' = <<>>
       /\ chunkRequests' = EmptyBag
       /\ (resolver.pc = "getFileReference" /\ resolver'.pc = "resolved") =>
             /\ resolver.path \in DOMAIN registry
             /\ resolver'.url =
                    [base |-> GatewayUrl,
                     blob_hash |-> encodeURIComponent(registry[resolver.path].hash),
                     owner_id |-> Owner]
       /\ (resolver.pc = "getFileReference" /\ resolver' # resolver
              /\ resolver.path \notin DOMAIN registry) =>
             /\ resolver'.pc = "rejected"
             /\ resolver'.error = "RegistryLookupFailed"
       /\ resolver'.pc \in {"getFileReference", "resolved"} =>
             getCalls' = <<resolver.path>>
      ]_vars

C22_Witness ==
    /\ resolver.pc = "resolved"
    /\ resolver.path = "a"
    /\ resolver.url.blob_hash # OtherHash
    /\ resolver.url.blob_hash = encodeURIComponent(OtherHash)
    /\ treeRequests = <<>>

C24_RoundTrip ==
    (fnResult.done /\ fnArgs.bytes # <<>>) =>
        /\ Len(fnArgs.text) = 71
        /\ fnResult.value.ok
        /\ fnResult.value.bytes = fnArgs.bytes

C24_Witness ==
    /\ fnResult.done
    /\ Len(fnArgs.bytes) = 32
    /\ \E k \in 1..32 : fnArgs.bytes[k] < 16
    /\ \E k \in 1..32 : fnArgs.bytes[k] > 160
    /\ fnResult.value.bytes = fnArgs.bytes

\* the text starts with 'sha256:' and the rest is made of hexadecimal digits
WellFormedText(text) ==
    /\ Len(text) >= 7
    /\ SubSeq(text, 1, 7) = <<115, 104, 97, 50, 53, 54, 58>>
    /\ \A k \in 8..Len(text) :
          text[k] \in (48..57) \cup (97..102) \cup (65..70)

\* C25: fromShaString of a text that does not start with 'sha256:' or whose
\* body holds a character that is no hexadecimal digit fails and yields no
\* digest; any error thrown is taken for MalformedDigest, a name the code
\* does not have
C25_MalformedRejected ==
    (fnResult.done /\ fnArgs.bytes = <<>> /\ ~WellFormedText(fnArgs.text)) =>
        /\ ~fnResult.value.ok
        /\ fnResult.value.error \in {"MalformedDigest", "TypeError", "InvalidDigestLength"}


\* a step of a regeneration: processImage(false) starts, goes on or ends
RegenerateStep ==
    /\ processing' # processing
    /\ \/ processing.pc # "idle" /\ ~processing.uploadToStorage
       \/ processing'.pc # "idle" /\ ~processing'.uploadToStorage

\* C26: a regeneration calls no upload, hence makes no gateway request and
\* no registry write, and leaves originalUrl, originalPath and quadtreePath
\* of an existing result as they are; it changes the result only by giving
\* it a new quadtree image
C26_RegenerateNoUpload ==
    [][RegenerateStep =>
          /\ uploadFileCalls' = uploadFileCalls
          /\ converter'.isUploading = converter.isUploading
          /\ treeRequests' = treeRequests
          /\ chunkRequests' = chunkRequests
          /\ registerCalls' = registerCalls
          /\ registry' = registry
          /\ converter.result.present =>
                /\ converter'.result.present
                /\ converter'.result.originalUrl = converter.result.originalUrl
                /\ converter'.result.originalPath = converter.result.originalPath
                /\ converter'.result.quadtreePath = converter.result.quadtreePath
          /\ converter'.result # converter.result =>
                /\ converter.result.present
                /\ converter'.result.quadtreeUrl.kind = "blob"
                /\ converter'.result.quadtreeUrl.id = objectUrls'
                /\ objectUrls' = objectUrls + 1
                /\ converter'.result.quadtreeCanvas.options = processing.quadtreeOptions
      ]_vars

C26_Witness ==
    /\ processing.pc = "idle"
    /\ converter.result.present
    /\ converter.result.originalUrl.kind = "gateway"
    /\ converter.result.quadtreePath.dir = "quadtree"
    /\ converter.result.quadtreeUrl.kind = "blob"
    /\ ~converter.result.quadtreeCanvas.options.showEdges
    /\ Len(uploadFileCalls) = 2


\* C27: the url of the result of putFile is built from the hash field of
\* that result, whatever other clients do to the path in the registry
\* between the registration and the lookup of putFile
C27_UrlOfOwnHash ==
    pc = "resolved" =>
        /\ result.hash = <<115, 104, 97, 50, 53, 54, 58>> \o toHex(RootNode(blobHashTree).hash)
        /\ result.url.blob_hash = encodeURIComponent(result.hash)

====
